---- MODULE Spec2Model ----
(***************************************************************************)
(* Session core of connect-call-client: RoomClient's remote consumer       *)
(* registry driven by room-state snapshots, its local producer registry    *)
(* (produce / closeProducer / pause / resume) and the connection-quality   *)
(* handler that pauses video on a bad connection.                          *)
(*                                                                         *)
(* Every await on the media transport or on the signaling channel is a     *)
(* suspension point: the synchronous prefix of a handler is one action,    *)
(* its continuation is a pending task completed by a later action.         *)
(***************************************************************************)
EXTENDS Naturals, Integers, Sequences, FiniteSets, Bags, TLC

VARIABLES
    role,               \* this.user.role, from the join response
    status,             \* this.user.status, from the join response
    hasProducerTransport, \* this.producerTransport !== null
    disableFrux,        \* this.disableFrux
    producers,          \* this.producers: label -> producer object (0 = no entry)
    pobjs,              \* every Producer object the send transport has created
    ptasks,             \* suspended produce() / closeProducer() calls
    connectionState,    \* this.connectionState (quality, videoDisabled)
    monQuality,         \* ConnectionMonitor._currentQuality.quality
    qtasks,             \* quality handlers suspended in await this.pauseVideo(reason)
    consumers,          \* this.consumers: consumer id -> {consumer, stream}
    cobjs,              \* every Consumer object the receive transport has created
    nstreams,           \* number of MediaStream objects created for consumers
    ctasks,             \* updateOrMakeConsumer calls suspended in consumerTransport.consume
    failed,             \* consumer ids whose creation was rejected since then
    unhandled,          \* whether an updateOrMakeConsumer promise has rejected
    lastSnap,           \* the room state handled last
    peersEvent,         \* payload of the last "peers" event
    endedTracks,        \* local tracks whose "ended" event has fired
    now,                \* new Date().getTime(), in ms
    results,            \* ConnectionMonitor.results
    monPing,            \* ConnectionMonitor._currentQuality.ping (-1 = NaN)
    emitted,            \* levels of the "quality" events emitted so far
    conn,               \* what close() releases: timers, socket, transports, listeners
    hook,               \* state of the useConnectCall hook that owns the session
    peerSource,         \* what the hook announces peers from: "events" or "state"
    peers,              \* this.peers of the RoomClient that handles "consume"
    consumeEvents,      \* "consume" handlers suspended in consumerTransport.consume
    tracked,            \* keys of last.current in useChangeTracker
    notices,            \* onPeerConnected / onPeerDisconnected calls delivered
    ev                  \* what the last step did (operation, outcome, requests sent)

vars == <<role, status, hasProducerTransport, disableFrux, producers, pobjs,
          ptasks, connectionState, monQuality, qtasks, consumers, cobjs,
          nstreams, ctasks, failed, unhandled, lastSnap, peersEvent,
          endedTracks, now,
          results, monPing, emitted, conn, hook, peerSource, peers,
          consumeEvents, tracked, notices, ev>>

sessionVars  == <<role, status, hasProducerTransport>>
producerVars == <<producers, pobjs, ptasks>>
qualityVars  == <<connectionState, monQuality, qtasks>>
snapVars     == <<consumers, cobjs, nstreams, ctasks, failed, unhandled, lastSnap,
                  peersEvent>>
\* state the producer, quality-handler and snapshot operations never write
monitorVars  == <<now, results, monPing, emitted>>
peerVars     == <<peerSource, peers, consumeEvents, tracked, notices>>
outsideVars  == <<endedTracks, monitorVars, conn, hook, peerVars>>

----------------------------------------------------------------------------
(* Bounds *)

MaxProducerObjs == 2    \* producers the send transport creates in one run
MaxTrack        == 2    \* local media tracks 1..MaxTrack
MaxConsumerId   == 3    \* server-assigned consumer ids 1..MaxConsumerId
MaxConsumerObjs == 3    \* consume() calls the receive transport accepts in one run
MaxSamples      == 5    \* probe responses the monitor holds at one time
MaxClock        == 3    \* clock steps of one run
MaxHandshakes   == 3    \* handshakes the hook starts in one run
MaxCloses       == 2    \* close() calls of one run
MaxPending      == 2    \* suspended calls of one kind at a time
MaxMessages     == 2    \* messages the hook sends in one run

----------------------------------------------------------------------------
(* Vocabulary *)

ProducerLabel == {"video", "audio", "screenshare"}
MediaKind     == {"audio", "video"}
Roles         == {"visitParticipant", "monitor"}
UserStatus    == {"AudioMutedByServer", "VideoMutedByServer", "HandRaised"}
Qualities     == {"excellent", "good", "average", "poor", "bad"}
Tracks        == 1..MaxTrack
ConsumerIds   == 1..MaxConsumerId

NoReason  == "-"
BadConnectionReason == "paused_video_bad_connection"
NoLabel   == "-"
SelfId    == "self"
Users     == {SelfId, "p1", "p2"}

\* The server-mute status that guards resume of a label.
MuteFlag(label) ==
    IF label = "audio" THEN "AudioMutedByServer" ELSE "VideoMutedByServer"

Req(name, label, paused, reason) ==
    [name |-> name, label |-> label, paused |-> paused, reason |-> reason]

Ev(op, label, res, sent, tproduce, consumed, cpause) ==
    [op |-> op, label |-> label, res |-> res, sent |-> sent,
     tproduce |-> tproduce, consumed |-> consumed, cpause |-> cpause]

NoEv == Ev("init", NoLabel, "ok", <<>>, 0, {}, {})

NoDisconnectReason == "-"

\* the hook's state at mount: client, clientStatus, automaticallyInit, disconnectReason and
\* debounceReady are its useState cells; connecting holds the calls of
\* reinitializeClient that have not settled, each with the producers it was
\* given, handshakes counts those started, inherited holds the track of each
\* local producer handed to the next session, manualSince tells whether
\* manuallyReconnect was called since the last disconnect event, messages is
\* the message list, sending the sendMessage calls that have not settled and
\* mounted tells whether the component that uses the hook is mounted
NewHook ==
    [client            |-> FALSE,
     clientStatus      |-> "initializing",
     automaticallyInit |-> TRUE,
     disconnectReason  |-> NoDisconnectReason,
     debounceReady     |-> FALSE,
     connecting        |-> EmptyBag,
     handshakes        |-> 0,
     inherited         |-> [l \in ProducerLabel |-> 0],
     manualSince       |-> FALSE,
     messages          |-> <<>>,
     sending           |-> EmptyBag,
     mounted           |-> TRUE]

\* before connect() has resolved there is no session; the session right after
\* connect(): the heartbeat runs for the monitor role
\* only; listening says whether the caller has subscribed to the session's
\* emitter, probing whether the quality monitor was started
NoConn ==
    [heartbeat          |-> FALSE,
     socket             |-> FALSE,
     consumerTransport  |-> FALSE,
     producerTransport  |-> FALSE,
     subscribers        |-> FALSE,
     monitorTimer       |-> FALSE,
     monitorSubscribers |-> FALSE,
     closeCalls         |-> 0]

\* the constructor's test for starting the heartbeat interval
HasHeartbeatAnyRole(r) == TRUE
HasHeartbeat(r) == r = "monitor"

NewConn(r, producing, listening, probing) ==
    [heartbeat          |-> HasHeartbeat(r),
     socket             |-> TRUE,
     consumerTransport  |-> TRUE,
     producerTransport  |-> producing,
     subscribers        |-> listening,
     monitorTimer       |-> probing,
     monitorSubscribers |-> probing,
     closeCalls         |-> 0]

----------------------------------------------------------------------------
(* Local producers: RoomClient.produce, closeProducer, pause*, resume*     *)

\* this.producers[label] is set
Holds(ps, label) == ps[label] # 0

\* the guard of produce(): the label already has a registry entry
AlreadyProducingNoCheck(ps, label) == FALSE
AlreadyProducing(ps, label) == Holds(ps, label)

NewProducer(label, track) ==
    [label |-> label, track |-> track, paused |-> FALSE, closed |-> FALSE]

\* producer.pause() / producer.resume() on object k
SetPaused(objs, k, p) == [objs EXCEPT ![k].paused = p]

\* producer.close() on object k
CloseObj(objs, k) == [objs EXCEPT ![k].closed = TRUE]

PTask(kind, label, track, obj) ==
    [kind |-> kind, label |-> label, track |-> track, obj |-> obj]

PendingP(kind) == {t \in BagToSet(ptasks) : t.kind = kind}

\* the number of produce() calls that have not settled
ProduceTasks ==
    BagCardinality([t \in PendingP("produce") |-> ptasks[t]])

\* produce(track, label) up to its await of producerTransport.produce
Produce(track, label) ==
    /\ IF ~hasProducerTransport
       THEN /\ ev' = Ev("produce", label, "notAbleToProduce", <<>>, 0, {}, {})
            /\ UNCHANGED producerVars
       ELSE IF AlreadyProducing(producers, label)
       THEN /\ ev' = Ev("produce", label, "alreadyProducing", <<>>, 0, {}, {})
            /\ UNCHANGED producerVars
       ELSE /\ Len(pobjs) + ProduceTasks < MaxProducerObjs
            /\ BagCardinality(ptasks) < MaxPending
            /\ ptasks' = ptasks (+) SetToBag({PTask("produce", label, track, 0)})
            /\ ev' = Ev("produce", label, "pending", <<>>, 1, {}, {})
            /\ UNCHANGED <<producers, pobjs>>
    /\ UNCHANGED <<sessionVars, outsideVars, disableFrux, qualityVars, snapVars>>

\* producerTransport.produce resolves: its "produce" event made the handler
\* request a producer id, the server answered, and the continuation registers
\* the producer
ProduceResolve(t) ==
    /\ t \in PendingP("produce")
    /\ ptasks' = ptasks (-) SetToBag({t})
    /\ pobjs' = Append(pobjs, NewProducer(t.label, t.track))
    /\ producers' = [producers EXCEPT ![t.label] = Len(pobjs) + 1]
    /\ ev' = Ev("produceDone", t.label, "ok",
                <<Req("produce", t.label, FALSE, NoReason)>>, 0, {}, {})
    /\ UNCHANGED <<sessionVars, outsideVars, disableFrux, qualityVars, snapVars>>

\* producerTransport.produce rejects: produce() throws, nothing is registered
ProduceReject(t) ==
    /\ t \in PendingP("produce")
    /\ ptasks' = ptasks (-) SetToBag({t})
    /\ ev' = Ev("produceDone", t.label, "rejected", <<>>, 0, {}, {})
    /\ UNCHANGED <<sessionVars, outsideVars, disableFrux, producers, pobjs, qualityVars, snapVars>>

\* pause, resume and closeProducer return at once when the label has no entry
MissingProducerThrows == "noSuchProducer"
MissingProducerResult == "noop"

\* closeProducer(label) up to its await of the producerClose request
CloseProducer(label) ==
    /\ IF ~Holds(producers, label)
       THEN /\ ev' = Ev("closeProducer", label, MissingProducerResult, <<>>, 0, {}, {})
            /\ UNCHANGED producerVars
       ELSE /\ BagCardinality(ptasks) < MaxPending
            /\ pobjs' = CloseObj(pobjs, producers[label])
            /\ ptasks' = ptasks (+)
                 SetToBag({PTask("close", label, 0, producers[label])})
            /\ ev' = Ev("closeProducer", label, "pending",
                        <<Req("producerClose", label, FALSE, NoReason)>>, 0, {}, {})
            /\ UNCHANGED producers
    /\ UNCHANGED <<sessionVars, outsideVars, disableFrux, qualityVars, snapVars>>

\* what closeProducer does with the registry once producerClose is acknowledged
DeleteEntryKeep(ps, label) == ps
DeleteEntry(ps, label) == [ps EXCEPT ![label] = 0]

\* the producerClose request is acknowledged: delete this.producers[label]
CloseProducerAck(t) ==
    /\ t \in PendingP("close")
    /\ ptasks' = ptasks (-) SetToBag({t})
    /\ producers' = DeleteEntry(producers, t.label)
    /\ ev' = Ev("closeProducerDone", t.label, "ok", <<>>, 0, {}, {})
    /\ UNCHANGED <<sessionVars, outsideVars, disableFrux, pobjs, qualityVars, snapVars>>

\* the producerClose request is refused: closeProducer throws before the delete
CloseProducerReject(t) ==
    /\ t \in PendingP("close")
    /\ ptasks' = ptasks (-) SetToBag({t})
    /\ ev' = Ev("closeProducerDone", t.label, "rejected", <<>>, 0, {}, {})
    /\ UNCHANGED <<sessionVars, outsideVars, disableFrux, producers, pobjs, qualityVars, snapVars>>

\* the test of the "ended" listener: the registered producer still sends track t
StillProducesAnyTrack(p, t) == TRUE
StillProduces(p, t) == p.track = t

\* the labels whose "ended" listener on track t calls closeProducer, one per
\* listener in the order the listeners were added (one listener per resolved
\* produce of t); Producer.track is the track that was produced
RECURSIVE EndedLabels(_, _)
EndedLabels(t, k) ==
    IF k = 0 THEN <<>>
    ELSE LET l    == pobjs[k].label
             rest == EndedLabels(t, k - 1)
         IN  IF /\ pobjs[k].track = t
                /\ Holds(producers, l)
                /\ StillProduces(pobjs[producers[l]], t)
             THEN Append(rest, l)
             ELSE rest

\* track t fires "ended": every listener whose label still holds a producer of
\* t runs closeProducer(label) up to its await of the producerClose request
TrackEnded(t) ==
    LET L     == EndedLabels(t, Len(pobjs))
        hit   == {L[i] : i \in DOMAIN L}
        tasks == {PTask("close", l, 0, producers[l]) : l \in hit}
    IN  /\ t \notin endedTracks
        /\ BagCardinality(ptasks) + Len(L) <= MaxPending
        /\ endedTracks' = endedTracks \cup {t}
        /\ pobjs' = [k \in DOMAIN pobjs |->
                       IF \E l \in hit : producers[l] = k
                       THEN [pobjs[k] EXCEPT !.closed = TRUE]
                       ELSE pobjs[k]]
        /\ ptasks' = ptasks (+)
              [x \in tasks |-> Cardinality({i \in DOMAIN L : L[i] = x.label})]
        /\ ev' = Ev("trackEnded", NoLabel, "ok",
                    [i \in DOMAIN L |->
                        Req("producerClose", L[i], FALSE, NoReason)],
                    0, {}, {})
        /\ UNCHANGED <<sessionVars, peerVars, monitorVars, conn, hook, disableFrux, producers,
                       qualityVars, snapVars>>

\* updateProducer(producer, paused, reason): toggle the producer, tell the server
UpdateProducerObjs(objs, k, paused) == SetPaused(objs, k, paused)

\* the producerUpdate request: the new flag and the reason, if one was given
UpdateProducerReqNoReason(l, p, reason) == <<Req("producerUpdate", l, p, NoReason)>>
UpdateProducerReq(l, p, reason) == <<Req("producerUpdate", l, p, reason)>>

\* pauseVideo(reason) / pauseAudio()
Pause(label, reason) ==
    /\ label \in MediaKind
    /\ label = "audio" => reason = NoReason
    /\ IF ~Holds(producers, label)
       THEN /\ ev' = Ev("pause", label, MissingProducerResult, <<>>, 0, {}, {})
            /\ UNCHANGED pobjs
       ELSE /\ pobjs' = UpdateProducerObjs(pobjs, producers[label], TRUE)
            /\ ev' = Ev("pause", label, "ok",
                        UpdateProducerReq(label, TRUE, reason), 0, {}, {})
    /\ UNCHANGED <<sessionVars, outsideVars, disableFrux, producers, ptasks, qualityVars, snapVars>>

\* the guard of resumeVideo / resumeAudio: a standing server mute for the label
ServerMutedNoCheck(st, label) == FALSE
ServerMuted(st, label) == MuteFlag(label) \in st

\* resumeVideo() / resumeAudio()
Resume(label) ==
    /\ label \in MediaKind
    /\ IF ~Holds(producers, label)
       THEN /\ ev' = Ev("resume", label, MissingProducerResult, <<>>, 0, {}, {})
            /\ UNCHANGED pobjs
       ELSE IF ServerMuted(status, label)
       THEN /\ ev' = Ev("resume", label, "ignored", <<>>, 0, {}, {})
            /\ UNCHANGED pobjs
       ELSE /\ pobjs' = UpdateProducerObjs(pobjs, producers[label], FALSE)
            /\ ev' = Ev("resume", label, "ok",
                        UpdateProducerReq(label, FALSE, NoReason), 0, {}, {})
    /\ UNCHANGED <<sessionVars, outsideVars, disableFrux, producers, ptasks, qualityVars, snapVars>>

\* the hook's effect "client.disableFrux = disableFrux"
SetDisableFrux(b) ==
    /\ disableFrux # b
    /\ disableFrux' = b
    /\ ev' = Ev("setDisableFrux", NoLabel, "ok", <<>>, 0, {}, {})
    /\ UNCHANGED <<sessionVars, outsideVars, producerVars, qualityVars, snapVars>>

----------------------------------------------------------------------------
(* Connection quality handler of RoomClient                                *)

\* videoDisabled as the handler computes it for quality q
VideoDisabledFor(q, cs) ==
    IF q = "bad" /\ cs.quality # "bad" THEN TRUE
    ELSE IF q \in {"excellent", "good", "average"} THEN FALSE
    ELSE cs.videoDisabled

\* the connectionState request, sent when the role test of the handler passes
ConnectionStateReq(r) ==
    IF r = "monitor"
    THEN <<Req("connectionState", NoLabel, FALSE, NoReason)>>
    ELSE <<>>

\* the "quality" listener of RoomClient: the handler runs up to await this.pauseVideo(reason), or to its end when nothing is awaited
QualityHandler(q) ==
       IF q = "bad" /\ connectionState.quality # "bad" /\ Holds(producers, "video")
       THEN /\ BagCardinality(qtasks) < MaxPending
            /\ pobjs' = UpdateProducerObjs(pobjs, producers["video"], TRUE)
            /\ qtasks' = qtasks (+) SetToBag({[quality |-> q]})
            /\ ev' = Ev("quality", NoLabel, "pending",
                        UpdateProducerReq("video", TRUE, BadConnectionReason),
                        0, {}, {})
            /\ UNCHANGED connectionState
       ELSE /\ connectionState' =
                 [quality |-> q,
                  videoDisabled |-> VideoDisabledFor(q, connectionState)]
            /\ ev' = Ev("quality", NoLabel, "ok", ConnectionStateReq(role),
                        0, {}, {})
            /\ UNCHANGED <<pobjs, qtasks>>

\* the monitor emits "quality" with a level other than its current one
QualityEvent(q) ==
    /\ q # monQuality
    /\ monQuality' = q
    /\ QualityHandler(q)
    /\ UNCHANGED <<sessionVars, outsideVars, disableFrux, producers, ptasks, snapVars>>

\* the producerUpdate request of a suspended handler settles: videoDisabled = true
QualityResume(t) ==
    /\ t \in BagToSet(qtasks)
    /\ qtasks' = qtasks (-) SetToBag({t})
    /\ connectionState' = [quality |-> t.quality, videoDisabled |-> TRUE]
    /\ ev' = Ev("qualityDone", NoLabel, "ok", ConnectionStateReq(role), 0, {}, {})
    /\ UNCHANGED <<sessionVars, outsideVars, disableFrux, producerVars, monQuality, snapVars>>

----------------------------------------------------------------------------
(* RoomClient.close and the timers it cancels                              *)

\* ConnectionMonitor.stop()
MonitorStop(c) ==
    IF c.monitorTimer
    THEN [c EXCEPT !.monitorTimer = FALSE, !.monitorSubscribers = FALSE]
    ELSE c

\* this.client.close(): the socket closes; when it was open it fires its
\* "disconnect" event, on which the monitor stops itself
SocketClose(c) ==
    IF c.socket THEN MonitorStop([c EXCEPT !.socket = FALSE]) ELSE c

\* if (this.heartbeat) clearInterval(this.heartbeat)
KeepHeartbeat(h) == h
ClearHeartbeat(h) == FALSE

\* the producers of the registry are closed
CloseProducers(objs, ps) ==
    [k \in DOMAIN objs |->
        IF \E l \in ProducerLabel : ps[l] = k
        THEN [objs[k] EXCEPT !.closed = TRUE]
        ELSE objs[k]]

\* the consumers of the registry are closed
CloseConsumers(objs, cs) ==
    [k \in DOMAIN objs |->
        IF \E i \in ConsumerIds : cs[i].consumer = k
        THEN [objs[k] EXCEPT !.closed = TRUE]
        ELSE objs[k]]

\* close() up to and including this.client.close()
CloseHead(S) ==
    [S EXCEPT !.conn = SocketClose([@ EXCEPT !.heartbeat = ClearHeartbeat(@)])]

\* close() after this.client.close()
CloseTail(S) ==
    [conn  |-> MonitorStop([S.conn EXCEPT !.consumerTransport = FALSE,
                                          !.producerTransport = FALSE,
                                          !.subscribers = FALSE,
                                          !.closeCalls = @ + 1]),
     pobjs |-> CloseProducers(S.pobjs, producers),
     cobjs |-> CloseConsumers(S.cobjs, consumers)]

RoomClientClose(S) == CloseTail(CloseHead(S))

\* close() during whose this.client.close() a "disconnect" listener calls
\* close() again
ReentrantClose(S) == CloseTail(RoomClientClose(CloseHead(S)))

\* what a statement of close() does on a session that is closed already
ClosedAgainThrows(c) == IF c.closeCalls > 0 THEN "error" ELSE "ok"
ClosedAgain(c) == "ok"

\* close(); reenter: a subscriber reacts to the disconnect by calling close()
Close(reenter) ==
    LET S == [conn |-> conn, pobjs |-> pobjs, cobjs |-> cobjs]
        R == IF reenter THEN ReentrantClose(S) ELSE RoomClientClose(S)
    IN  /\ reenter => (conn.socket /\ conn.subscribers)
        /\ R.conn.closeCalls <= MaxCloses
        /\ conn' = R.conn
        /\ pobjs' = R.pobjs
        /\ cobjs' = R.cobjs
        /\ ev' = Ev(IF reenter THEN "closeReentrant" ELSE "close", NoLabel,
                    ClosedAgain(conn), <<>>, 0, {}, {})
        /\ UNCHANGED <<sessionVars, peerVars, endedTracks, monitorVars, hook, disableFrux,
                       producers, ptasks, qualityVars, consumers, nstreams,
                       ctasks, failed, unhandled, lastSnap, peersEvent>>

\* the heartbeat timer fires
HeartbeatTick ==
    /\ conn.heartbeat
    /\ ev' = Ev("heartbeat", NoLabel, "ok",
                <<Req("heartbeat", NoLabel, FALSE, NoReason)>>, 0, {}, {})
    /\ UNCHANGED <<sessionVars, outsideVars, disableFrux, producerVars,
                   qualityVars, snapVars>>

\* the monitor's timer fires: update() emits a probe
ProbeTick ==
    /\ conn.monitorTimer
    /\ ev' = Ev("ping", NoLabel, "ok",
                <<Req("ccc-ping", NoLabel, FALSE, NoReason)>>, 0, {}, {})
    /\ UNCHANGED <<sessionVars, outsideVars, disableFrux, producerVars,
                   qualityVars, snapVars>>

----------------------------------------------------------------------------
(* ConnectionMonitor: probe responses, expiry, classification, emission    *)

RESULTS_TTL_MS == 5000
MinResults     == 5

\* the order analyze() tries the levels in, and their limits in ms (bad has
\* Infinity, unknown has NaN and is never selected by a comparison)
qualities == <<"excellent", "good", "average", "poor", "bad">>
QualityRange ==
    [q \in {"excellent", "good", "average", "poor"} |->
        CASE q = "excellent" -> 50
          [] q = "good"      -> 150
          [] q = "average"   -> 500
          [] q = "poor"      -> 1000]

RECURSIVE SumMs(_)
SumMs(rs) == IF rs = <<>> THEN 0 ELSE Head(rs).ms + SumMs(Tail(rs))

\* average <= limit, for average = sum / n
WithinStrict(sum, n, q) == q = "bad" \/ sum < QualityRange[q] * n
Within(sum, n, q) == q = "bad" \/ sum <= QualityRange[q] * n

\* the first level of qualities whose limit the average does not exceed
RECURSIVE FirstWithin(_, _, _)
FirstWithin(sum, n, i) ==
    IF Within(sum, n, qualities[i]) THEN qualities[i]
    ELSE FirstWithin(sum, n, i + 1)

NewQuality(rs) == FirstWithin(SumMs(rs), Len(rs), 1)

\* Math.round(average)
RoundedAverage(rs) == (2 * SumMs(rs) + Len(rs)) \div (2 * Len(rs))

\* results.filter((r) => r.checkTime > limit)
Unexpired(rs, at) == SelectSeq(rs, LAMBDA r : r.checkTime > at - RESULTS_TTL_MS)

\* analyze() has too few results to judge
TooFewAlways(rs) == FALSE
TooFew(rs) == Len(rs) < MinResults

\* analyze() emits only a level other than the current one
ChangedAlways(cur, new) == TRUE
Changed(cur, new) == cur # new

\* the clock moves on between two responses, by half the time a result lives
ClockSteps == {RESULTS_TTL_MS \div 2}

Tick(d) ==
    /\ d \in ClockSteps
    /\ now + d <= RESULTS_TTL_MS + MaxClock * d
    /\ now' = now + d
    /\ ev' = Ev("tick", NoLabel, "ok", <<>>, 0, {}, {})
    /\ UNCHANGED <<sessionVars, peerVars, endedTracks, results, monPing, emitted, conn, hook,
                   disableFrux, producerVars, qualityVars, snapVars>>

\* handleResponse(response) for the echo of a probe sent rtt ms ago, with
\* analyze() and, when it emits, the session's "quality" listener
HandleResponse(rtt) ==
    LET pushed == Append(results, [checkTime |-> now - rtt, ms |-> rtt])
        live   == Unexpired(pushed, now)
    IN  /\ Len(live) <= MaxSamples
        /\ results' = live
        /\ IF ~TooFew(live) /\ Changed(monQuality, NewQuality(live))
           THEN /\ monQuality' = NewQuality(live)
                /\ monPing' = RoundedAverage(live)
                /\ emitted' = Append(emitted, NewQuality(live))
                /\ QualityHandler(NewQuality(live))
           ELSE /\ ev' = Ev("pong", NoLabel, "none", <<>>, 0, {}, {})
                /\ UNCHANGED <<monQuality, monPing, emitted, connectionState,
                               pobjs, qtasks>>
        /\ UNCHANGED <<sessionVars, peerVars, endedTracks, now, conn, hook, disableFrux, producers,
                       ptasks, snapVars>>

\* handleResponse(response) for a response that is not a number
HandleMalformedResponse ==
    /\ ev' = Ev("pong", NoLabel, "malformed", <<>>, 0, {}, {})
    /\ UNCHANGED <<sessionVars, outsideVars, disableFrux, producerVars,
                   qualityVars, snapVars>>

----------------------------------------------------------------------------
(* Room-state snapshots: the client.on("state") handler                    *)

\* PublishedConsumerInfo: the fields of a descriptor besides its id
Descs == [paused : BOOLEAN, producerPaused : BOOLEAN]

\* the participant and the label a consumer id is published under
OwnerOf(i) == IF i % 2 = 1 THEN "p1" ELSE "p2"
LabelOf(i) == IF i % 4 = 0 THEN "video" ELSE "audio"

\* a participant publishes at most one consumer per label
IdSets(Ids) ==
    {S \in SUBSET Ids :
        \A i, j \in S :
            (OwnerOf(i) = OwnerOf(j) /\ LabelOf(i) = LabelOf(j)) => i = j}

Owners(S) == {OwnerOf(i) : i \in S}

\* PublishedRoomState: participants, their status and their consumers.  Ids and
\* D are the consumer ids and descriptors drawn from, Extra the participants
\* that may be present without a consumer, Opt[u] the status values of u.
SnapshotSet(Ids, D, Extra, Opt) ==
    UNION { UNION { UNION {
        { [present |-> P, status |-> st, cons |-> c] : c \in [S -> D] }
            : st \in { f \in [Users -> SUBSET UserStatus] :
                         \A u \in Users :
                            IF u \in P THEN f[u] \in Opt[u] ELSE f[u] = {} } }
            : P \in { Owners(S) \cup Q : Q \in SUBSET Extra } }
            : S \in IdSets(Ids) }

SnapIds(s) == DOMAIN s.cons

NoEntry == [consumer |-> 0, stream |-> 0]

\* this.consumers.get(id)
LookupMiss(cs, id) == NoEntry
Lookup(cs, id) == cs[id]

\* the Consumer the receive transport builds for a descriptor
NewConsumer(id, paused) == [id |-> id, paused |-> paused, closed |-> FALSE]

\* the payload of the "peers" event: one entry per participant of the state
PublishedPeers(s) ==
    [u \in s.present |->
        [status |-> s.status[u],
         consumers |-> {i \in SnapIds(s) : OwnerOf(i) = u}]]

\* ids of consumers that were created and are not closed
LiveIds == {cobjs[k].id : k \in {n \in DOMAIN cobjs : ~cobjs[n].closed}}

\* the descriptors the "state" handler passes to updateOrMakeConsumer; u tells
\* whether an earlier call has rejected
HandledUntilRejection(s, u) == IF u THEN {} ELSE SnapIds(s)
Handled(s, u) == SnapIds(s)

\* client.on("state"): updateOrMakeConsumer runs for every descriptor up to its
\* first await, then "peers" is emitted
StateEvent(s) ==
    LET known   == {i \in Handled(s, unhandled) : Lookup(consumers, i) # NoEntry}
        fresh   == Handled(s, unhandled) \ known
        toggled == {i \in known :
                      cobjs[consumers[i].consumer].paused # s.cons[i].paused}
    IN  /\ Len(cobjs) + BagCardinality(ctasks) + Cardinality(fresh)
              <= MaxConsumerObjs
        /\ cobjs' = [k \in DOMAIN cobjs |->
                       IF \E i \in toggled : consumers[i].consumer = k
                       THEN [cobjs[k] EXCEPT !.paused = ~@]
                       ELSE cobjs[k]]
        /\ ctasks' = ctasks (+)
               SetToBag({[id |-> i, paused |-> s.cons[i].paused] : i \in fresh})
        /\ failed' = {}
        /\ lastSnap' = <<s>>
        /\ peersEvent' = PublishedPeers(s)
        /\ ev' = Ev("state", NoLabel, "ok", <<>>, 0, fresh, toggled)
        /\ UNCHANGED <<sessionVars, outsideVars, disableFrux, producerVars, qualityVars,
                       consumers, nstreams, unhandled>>

\* consumerTransport.consume resolves: a stream is made and the entry is set
ConsumeResolve(t) ==
    /\ t \in BagToSet(ctasks)
    /\ ctasks' = ctasks (-) SetToBag({t})
    /\ cobjs' = Append(cobjs, NewConsumer(t.id, t.paused))
    /\ nstreams' = nstreams + 1
    /\ consumers' = [consumers EXCEPT
                       ![t.id] = [consumer |-> Len(cobjs) + 1,
                                  stream |-> nstreams + 1]]
    /\ ev' = Ev("consumeDone", NoLabel, "ok", <<>>, 0, {}, {})
    /\ UNCHANGED <<sessionVars, outsideVars, disableFrux, producerVars, qualityVars,
                   failed, unhandled, lastSnap, peersEvent>>

\* consumerTransport.consume rejects: updateOrMakeConsumer throws
ConsumeReject(t) ==
    /\ t \in BagToSet(ctasks)
    /\ ctasks' = ctasks (-) SetToBag({t})
    /\ failed' = failed \cup {t.id}
    /\ unhandled' = TRUE
    /\ ev' = Ev("consumeDone", NoLabel, "rejected", <<>>, 0, {}, {})
    /\ UNCHANGED <<sessionVars, outsideVars, disableFrux, producerVars, qualityVars,
                   consumers, cobjs, nstreams, lastSnap, peersEvent>>

----------------------------------------------------------------------------
(* useConnectCall: disconnect handling and re-initialization                *)

\* the reasons a disconnect event carries: a transport error, an explicit
\* disconnect, and being superseded by another client of the same identity
DisconnectReasons == {"error", "explicit", "superseded"}

\* the test of the disconnect handler that arms the re-initialization
ArmsAlways(reason) == TRUE
ArmsReconnect(reason) == reason = "error"

\* the debounce timer of the hook fires
DebounceElapsed ==
    /\ hook.mounted
    /\ ~hook.debounceReady
    /\ hook' = [hook EXCEPT !.debounceReady = TRUE]
    /\ ev' = Ev("debounce", NoLabel, "ok", <<>>, 0, {}, {})
    /\ UNCHANGED <<sessionVars, peerVars, endedTracks, monitorVars, conn, disableFrux,
                   producerVars, qualityVars, snapVars>>

\* the condition of the client-creation effect
InitEffectEnabled(h) == h.debounceReady /\ ~h.client /\ h.automaticallyInit

\* the awaits of RoomClient.connect after the socket has connected, in order
ConnectStepsDeclareFirst == <<"join", "declareRtpCapabilities", "load">>
ConnectSteps == <<"join", "load", "declareRtpCapabilities">>

\* a call reinitializeClient(localProducers) suspended in RoomClient.connect:
\* the producers it was given, the disconnect reason it was started under and
\* the await it is suspended in
Connecting(h) ==
    [producers |-> h.inherited, after |-> h.disconnectReason,
     step |-> ConnectSteps[1]]

\* the client-creation effect: reinitializeClient starts RoomClient.connect
StartHandshake ==
    /\ hook.mounted
    /\ InitEffectEnabled(hook)
    /\ hook.handshakes < MaxHandshakes
    /\ hook' = [hook EXCEPT !.automaticallyInit = FALSE,
                            !.disconnectReason = NoDisconnectReason,
                            !.connecting = @ (+) SetToBag({Connecting(hook)}),
                            !.handshakes = @ + 1]
    /\ ev' = Ev("handshake", NoLabel, "pending",
                <<Req("join", NoLabel, FALSE, NoReason)>>, 0, {}, {})
    /\ UNCHANGED <<sessionVars, peerVars, endedTracks, monitorVars, conn, disableFrux,
                   producerVars, qualityVars, snapVars>>

\* what connect does between device.load and its next await: the send
\* transport is made when the join response describes one, then the receive
\* transport, then the capabilities are declared
TransportCalls(producing) ==
    (IF producing THEN <<Req("createSendTransport", NoLabel, FALSE, NoReason)>>
     ELSE <<>>)
    \o <<Req("createRecvTransport", NoLabel, FALSE, NoReason),
         Req("declareRtpCapabilities", NoLabel, FALSE, NoReason)>>

\* what the constructor does with the signaling client, in order: it subscribes
\* its textMessage, timer and state handlers and then sends finishConnecting
SessionCalls ==
    <<Req("on textMessage", NoLabel, FALSE, NoReason),
      Req("on timer", NoLabel, FALSE, NoReason),
      Req("on state", NoLabel, FALSE, NoReason),
      Req("finishConnecting", NoLabel, FALSE, NoReason)>>

\* an await of RoomClient.connect resolves and connect runs up to its next one
\* (ev.sent lists the calls it makes on the way, in order)
HandshakeStep(c) ==
    LET next == CHOOSE i \in 2..Len(ConnectSteps) : ConnectSteps[i - 1] = c.step
    IN  /\ c \in BagToSet(hook.connecting)
        /\ c.step # ConnectSteps[Len(ConnectSteps)]
        /\ hook' = [hook EXCEPT
                      !.connecting = (@ (-) SetToBag({c})) (+)
                          SetToBag({[c EXCEPT !.step = ConnectSteps[next]]})]
        /\ ev' = Ev("handshakeStep", c.step, "ok",
                    IF ConnectSteps[next] = "declareRtpCapabilities"
                    THEN TransportCalls(hasProducerTransport) ELSE <<>>,
                    0, {}, {})
        /\ UNCHANGED <<sessionVars, peerVars, endedTracks, monitorVars, conn, disableFrux,
                       producerVars, qualityVars, snapVars>>

\* the labels reinitializeClient produces again on the new session
InheritedNone(given) == {}
Inherited(given) == {l \in ProducerLabel : given[l] # 0}

\* RoomClient.connect resolves: a new session replaces the old one, the hook
\* binds it and calls produce for every inherited producer (ev.label tells the
\* disconnect reason the call was started under)
HandshakeResolve(c) ==
    /\ c \in BagToSet(hook.connecting)
    /\ c.step = ConnectSteps[Len(ConnectSteps)]
    /\ hook' = [hook EXCEPT !.connecting = @ (-) SetToBag({c}),
                            !.client = TRUE,
                            !.clientStatus = "connected"]
    /\ conn' = NewConn(role, hasProducerTransport, TRUE, TRUE)
    /\ producers' = [l \in ProducerLabel |-> 0]
    /\ ptasks' = IF hasProducerTransport
                 THEN SetToBag({PTask("produce", l, c.producers[l], 0) :
                                   l \in Inherited(c.producers)})
                 ELSE EmptyBag
    /\ consumers' = [i \in ConsumerIds |-> NoEntry]
    /\ ctasks' = EmptyBag
    /\ qtasks' = EmptyBag
    /\ connectionState' = [quality |-> "unknown", videoDisabled |-> FALSE]
    /\ monQuality' = "unknown"
    /\ results' = <<>>
    /\ monPing' = -1
    /\ ev' = Ev("handshakeDone", c.after, "ok", SessionCalls,
                IF hasProducerTransport
                THEN Cardinality(Inherited(c.producers)) ELSE 0,
                {}, {})
    /\ UNCHANGED <<sessionVars, peerVars, endedTracks, now, emitted, disableFrux, pobjs,
                   cobjs, nstreams, failed, unhandled, lastSnap, peersEvent>>

\* the status the catch block of reinitializeClient sets
RejectedStatusKept(s) == s
RejectedStatus(s) == "errored"

\* an await of RoomClient.connect rejects, and so does connect (ev.label tells
\* the await that rejected)
HandshakeReject(c) ==
    /\ c \in BagToSet(hook.connecting)
    /\ hook' = [hook EXCEPT !.connecting = @ (-) SetToBag({c}),
                            !.clientStatus = RejectedStatus(@)]
    /\ ev' = Ev("handshakeDone", c.step, "rejected", <<>>, 0, {}, {})
    /\ UNCHANGED <<sessionVars, peerVars, endedTracks, monitorVars, conn, disableFrux,
                   producerVars, qualityVars, snapVars>>

\* the hook's localProducers state: the stream of each label the session produces
LocalProducers(ps, objs) ==
    [l \in ProducerLabel |-> IF Holds(ps, l) THEN objs[ps[l]].track ELSE 0]

\* the bound session emits "disconnect": the handler closes it, forgets it,
\* records the reason and arms the re-initialization for a transport error
DisconnectEvent(reason) ==
    LET R == RoomClientClose([conn |-> conn, pobjs |-> pobjs, cobjs |-> cobjs])
    IN  /\ hook.client
        /\ conn' = R.conn
        /\ pobjs' = R.pobjs
        /\ cobjs' = R.cobjs
        /\ hook' = [hook EXCEPT
                      !.client = FALSE,
                      !.clientStatus = "disconnected",
                      !.disconnectReason = reason,
                      !.automaticallyInit = ArmsReconnect(reason) \/ @,
                      !.manualSince = FALSE,
                      !.inherited = LocalProducers(producers, pobjs)]
        /\ ev' = Ev("disconnect", NoLabel, reason, <<>>, 0, {}, {})
        /\ UNCHANGED <<sessionVars, peerVars, endedTracks, monitorVars, disableFrux,
                       producers, ptasks, qualityVars, consumers, nstreams,
                       ctasks, failed, unhandled, lastSnap, peersEvent>>

\* manuallyReconnect()
ManuallyReconnect ==
    /\ hook' = [hook EXCEPT !.automaticallyInit = TRUE, !.manualSince = TRUE]
    /\ ev' = Ev("manuallyReconnect", NoLabel, "ok", <<>>, 0, {}, {})
    /\ UNCHANGED <<sessionVars, peerVars, endedTracks, monitorVars, conn, disableFrux,
                   producerVars, qualityVars, snapVars>>

\* the component unmounts: the cleanups of the hook's effects run, which clear
\* the debounce timeout, unbind the message and timer handlers and set the
\* status to disconnected
Unmount ==
    /\ hook.mounted
    /\ hook' = [hook EXCEPT !.mounted = FALSE,
                            !.clientStatus =
                                IF hook.client THEN "disconnected" ELSE @]
    /\ ev' = Ev("unmount", NoLabel, "ok", <<>>, 0, {}, {})
    /\ UNCHANGED <<sessionVars, peerVars, endedTracks, monitorVars, conn,
                   disableFrux, producerVars, qualityVars, snapVars>>

\* the texts the application sends
Contents == {"a", "b"}

\* the test sendMessage makes before it sends
NoClientNever(h) == FALSE
NoClient(h) == ~h.client

\* sendMessage(contents) up to await client.sendMessage(contents)
SendMessage(m) ==
    /\ Len(hook.messages) + BagCardinality(hook.sending) < MaxMessages
    /\ IF NoClient(hook)
       THEN /\ ev' = Ev("sendMessage", m, "Not connected", <<>>, 0, {}, {})
            /\ UNCHANGED hook
       ELSE /\ hook' = [hook EXCEPT !.sending = @ (+) SetToBag({m})]
            /\ ev' = Ev("sendMessage", m, "pending",
                        <<Req("textMessage", NoLabel, FALSE, NoReason)>>,
                        0, {}, {})
    /\ UNCHANGED <<sessionVars, peerVars, endedTracks, monitorVars, conn,
                   disableFrux, producerVars, qualityVars, snapVars>>

\* the textMessage request is acknowledged: the message joins the list
SendMessageAck(m) ==
    /\ m \in BagToSet(hook.sending)
    /\ hook' = [hook EXCEPT !.sending = @ (-) SetToBag({m}),
                            !.messages = Append(@, m)]
    /\ ev' = Ev("sendMessageDone", m, "ok", <<>>, 0, {}, {})
    /\ UNCHANGED <<sessionVars, peerVars, endedTracks, monitorVars, conn,
                   disableFrux, producerVars, qualityVars, snapVars>>

\* the textMessage request is answered with an error: sendMessage throws
SendMessageReject(m) ==
    /\ m \in BagToSet(hook.sending)
    /\ hook' = [hook EXCEPT !.sending = @ (-) SetToBag({m})]
    /\ ev' = Ev("sendMessageDone", m, "rejected", <<>>, 0, {}, {})
    /\ UNCHANGED <<sessionVars, peerVars, endedTracks, monitorVars, conn,
                   disableFrux, producerVars, qualityVars, snapVars>>

----------------------------------------------------------------------------
(* Peer announcements: onPeerConnected / onPeerDisconnected                 *)

RemoteUsers == Users \ {SelfId}

NoPeer == [present |-> FALSE, kinds |-> {}]

NoNotices ==
    [last |-> [u \in Users |-> "none"], connected |-> {}, disconnected |-> {}]

\* the application's callbacks are called: onPeerConnected for every user of
\* added, onPeerDisconnected for every user of removed
Announce(n, added, removed) ==
    [last |-> [u \in Users |->
                 IF u \in removed THEN "disconnected"
                 ELSE IF u \in added THEN "connected"
                 ELSE n.last[u]],
     connected |-> added,
     disconnected |-> removed]

\* client.on("consume"): the handler awaits consumerTransport.consume
ConsumeEvent(u, kind) ==
    /\ peerSource = "events"
    /\ BagCardinality(consumeEvents) < MaxPending
    /\ consumeEvents' = consumeEvents (+) SetToBag({[user |-> u, kind |-> kind]})
    /\ ev' = Ev("consume", kind, "pending", <<>>, 0, {}, {})
    /\ UNCHANGED <<sessionVars, endedTracks, monitorVars, conn, hook,
                   peerSource, peers, tracked, notices, disableFrux,
                   producerVars, qualityVars, snapVars>>

\* the test of the "consume" handler for a peer it has not seen
UnknownPeerAlways(ps, u) == TRUE
UnknownPeer(ps, u) == ~ps[u].present

\* consumerTransport.consume resolves: a peer not yet in this.peers is added
\* and announced, the consumer is stored under its kind
ConsumeEventResolve(t) ==
    /\ peerSource = "events"
    /\ t \in BagToSet(consumeEvents)
    /\ consumeEvents' = consumeEvents (-) SetToBag({t})
    /\ peers' = [peers EXCEPT ![t.user] =
                    [present |-> TRUE, kinds |-> @.kinds \cup {t.kind}]]
    /\ notices' = Announce(notices,
                           IF UnknownPeer(peers, t.user) THEN {t.user} ELSE {},
                           {})
    /\ ev' = Ev("consumeEventDone", t.kind, "ok", <<>>, 0, {}, {})
    /\ UNCHANGED <<sessionVars, endedTracks, monitorVars, conn, hook,
                   peerSource, tracked, disableFrux, producerVars, qualityVars,
                   snapVars>>

\* consumerTransport.consume rejects: the handler throws before it looks at
\* this.peers
ConsumeEventReject(t) ==
    /\ peerSource = "events"
    /\ t \in BagToSet(consumeEvents)
    /\ consumeEvents' = consumeEvents (-) SetToBag({t})
    /\ notices' = Announce(notices, {}, {})
    /\ ev' = Ev("consumeEventDone", t.kind, "rejected", <<>>, 0, {}, {})
    /\ UNCHANGED <<sessionVars, endedTracks, monitorVars, conn, hook,
                   peerSource, peers, tracked, disableFrux, producerVars,
                   qualityVars, snapVars>>

\* client.on("producerUpdate"): throws for an unknown peer, else updates it
ProducerUpdateEvent(u) ==
    /\ peerSource = "events"
    /\ notices' = Announce(notices, {}, {})
    /\ ev' = Ev("producerUpdate", u,
                IF peers[u].present THEN "ok" ELSE "unknownPeer",
                <<>>, 0, {}, {})
    /\ UNCHANGED <<sessionVars, endedTracks, monitorVars, conn, hook,
                   peerSource, peers, consumeEvents, tracked, disableFrux,
                   producerVars, qualityVars, snapVars>>

\* client.on("participantDisconnect"): a known peer is removed and announced
ParticipantDisconnect(u) ==
    /\ peerSource = "events"
    /\ peers' = [peers EXCEPT ![u] = NoPeer]
    /\ notices' = Announce(notices, {},
                           IF peers[u].present THEN {u} ELSE {})
    /\ ev' = Ev("participantDisconnect", u, "ok", <<>>, 0, {}, {})
    /\ UNCHANGED <<sessionVars, endedTracks, monitorVars, conn, hook,
                   peerSource, consumeEvents, tracked, disableFrux,
                   producerVars, qualityVars, snapVars>>

\* useChangeTracker's effect after a render: object is the payload of the
\* last "peers" event; keys new to last.current are announced as connected,
\* keys gone from it as disconnected
TrackPeers ==
    LET object == DOMAIN peersEvent
    IN  /\ peerSource = "state"
        /\ object # tracked
        /\ notices' = Announce(notices, object \ tracked, tracked \ object)
        /\ tracked' = object
        /\ ev' = Ev("trackPeers", NoLabel, "ok", <<>>, 0, {}, {})
        /\ UNCHANGED <<sessionVars, endedTracks, monitorVars, conn, hook,
                       peerSource, peers, consumeEvents, disableFrux,
                       producerVars, qualityVars, snapVars>>

----------------------------------------------------------------------------
(* Specifications *)

InitPeerState ==
    /\ peers = [u \in Users |-> NoPeer]
    /\ consumeEvents = EmptyBag
    /\ tracked = {}
    /\ notices = NoNotices

InitPeers == peerSource = "events" /\ InitPeerState

InitProducers ==
    /\ producers = [l \in ProducerLabel |-> 0]
    /\ pobjs = <<>>
    /\ ptasks = EmptyBag

InitTracks == endedTracks = {}

InitMonitor ==
    /\ now = RESULTS_TTL_MS
    /\ results = <<>>
    /\ monPing = -1
    /\ emitted = <<>>

InitQuality ==
    /\ connectionState = [quality |-> "unknown", videoDisabled |-> FALSE]
    /\ monQuality = "unknown"
    /\ qtasks = EmptyBag

InitSnapshots ==
    /\ consumers = [i \in ConsumerIds |-> NoEntry]
    /\ cobjs = <<>>
    /\ nstreams = 0
    /\ ctasks = EmptyBag
    /\ failed = {}
    /\ unhandled = FALSE
    /\ lastSnap = <<>>
    /\ peersEvent = <<>>

\* a session that produces and closes producers, with or without a send transport
InitProd ==
    /\ role = "visitParticipant"
    /\ status = {}
    /\ hasProducerTransport \in BOOLEAN
    /\ disableFrux = FALSE
    /\ InitProducers /\ InitTracks /\ InitMonitor /\ InitQuality /\ InitSnapshots
    /\ InitPeers
    /\ conn = NewConn(role, hasProducerTransport, TRUE, TRUE)
    /\ hook = NewHook
    /\ ev = NoEv

NextProd ==
    \/ \E l \in ProducerLabel : Produce(1, l)
    \/ \E t \in BagToSet(ptasks) : ProduceResolve(t)
    \/ \E t \in BagToSet(ptasks) : ProduceReject(t)
    \/ \E l \in ProducerLabel : CloseProducer(l)
    \/ \E t \in BagToSet(ptasks) : CloseProducerAck(t)
    \/ \E t \in BagToSet(ptasks) : CloseProducerReject(t)

SpecProd == InitProd /\ [][NextProd]_vars

\* a session that pauses and resumes its audio and video under server mutes
InitMute ==
    /\ role = "visitParticipant"
    /\ status \in SUBSET {"AudioMutedByServer", "VideoMutedByServer"}
    /\ hasProducerTransport = TRUE
    /\ disableFrux = FALSE
    /\ InitProducers /\ InitTracks /\ InitMonitor /\ InitQuality /\ InitSnapshots
    /\ InitPeers
    /\ conn = NewConn(role, hasProducerTransport, TRUE, TRUE)
    /\ hook = NewHook
    /\ ev = NoEv

NextMute ==
    \/ \E l \in MediaKind : Produce(1, l)
    \/ \E t \in BagToSet(ptasks) : ProduceResolve(t)
    \/ \E l \in ProducerLabel : CloseProducer(l)
    \/ \E t \in BagToSet(ptasks) : CloseProducerAck(t)
    \/ \E l \in MediaKind : Pause(l, NoReason)
    \/ \E l \in MediaKind : Resume(l)

SpecMute == InitMute /\ [][NextMute]_vars

\* a session without local media whose monitor receives probe responses
InitMon ==
    /\ role = "visitParticipant"
    /\ status = {}
    /\ hasProducerTransport = TRUE
    /\ disableFrux = FALSE
    /\ InitProducers /\ InitTracks /\ InitMonitor /\ InitQuality /\ InitSnapshots
    /\ InitPeers
    /\ conn = NewConn(role, hasProducerTransport, TRUE, TRUE)
    /\ hook = NewHook
    /\ ev = NoEv

\* a short and a long round trip, responses spread over the clock
MonRtts == {40, 1200}

NextMon ==
    \/ \E d \in ClockSteps : Tick(d)
    \/ \E rtt \in MonRtts : HandleResponse(rtt)
    \/ HandleMalformedResponse

SpecMon == InitMon /\ [][NextMon]_vars

\* round trips at and just above every limit of QualityRange
ClassRtts == {50, 51, 150, 151, 500, 501, 1000, 1001}

NextClass ==
    \E rtt \in ClassRtts : HandleResponse(rtt)

SpecClass == InitMon /\ [][NextClass]_vars

\* a session whose local tracks end while their producers come and go
NextEnded ==
    \/ \E tr \in Tracks, l \in MediaKind : Produce(tr, l)
    \/ \E t \in BagToSet(ptasks) : ProduceResolve(t)
    \/ \E l \in MediaKind : CloseProducer(l)
    \/ \E t \in BagToSet(ptasks) : CloseProducerAck(t)
    \/ \E tr \in Tracks : TrackEnded(tr)

SpecEnded == InitProd /\ [][NextEnded]_vars

\* one quality of each class the handler tells apart
QualityInputs == {"good", "poor", "bad"}

\* a session producing video while the connection monitor reports qualities
InitQual ==
    /\ role \in Roles
    /\ status \in {{}, {"VideoMutedByServer"}}
    /\ hasProducerTransport = TRUE
    /\ disableFrux = FALSE
    /\ InitProducers /\ InitTracks /\ InitMonitor /\ InitQuality /\ InitSnapshots
    /\ InitPeers
    /\ conn = NewConn(role, hasProducerTransport, TRUE, TRUE)
    /\ hook = NewHook
    /\ ev = NoEv

NextQual ==
    \/ Produce(1, "video")
    \/ \E t \in BagToSet(ptasks) : ProduceResolve(t)
    \/ \E r \in {NoReason, BadConnectionReason} : Pause("video", r)
    \/ Resume("video")
    \/ \E b \in BOOLEAN : SetDisableFrux(b)
    \/ \E q \in QualityInputs : QualityEvent(q)
    \/ \E t \in BagToSet(qtasks) : QualityResume(t)

SpecQual == InitQual /\ [][NextQual]_vars

\* a participant session without local media, receiving room states
InitSnap ==
    /\ role = "visitParticipant"
    /\ status = {}
    /\ hasProducerTransport = TRUE
    /\ disableFrux = FALSE
    /\ InitProducers /\ InitTracks /\ InitMonitor /\ InitQuality /\ InitSnapshots
    /\ InitPeers
    /\ conn = NewConn(role, hasProducerTransport, TRUE, TRUE)
    /\ hook = NewHook
    /\ ev = NoEv

NoStatus == [u \in Users |-> {{}}]

\* room states over all consumer ids; every participant has a consumer
ConsumerSnapshots ==
    SnapshotSet(ConsumerIds, [paused : BOOLEAN, producerPaused : {FALSE}],
                {}, NoStatus)

NextSnap ==
    \/ \E s \in ConsumerSnapshots : StateEvent(s)
    \/ \E t \in BagToSet(ctasks) : ConsumeResolve(t)
    \/ \E t \in BagToSet(ctasks) : ConsumeReject(t)

SpecSnap == InitSnap /\ [][NextSnap]_vars

\* a session with or without heartbeat and probe timer, with producers and
\* consumers, closed once or more
InitClose ==
    /\ role \in {"monitor", "visitParticipant"}
    /\ status = {}
    /\ hasProducerTransport = TRUE
    /\ disableFrux = FALSE
    /\ InitProducers /\ InitTracks /\ InitMonitor /\ InitQuality /\ InitSnapshots
    /\ InitPeers
    /\ \E probing \in BOOLEAN :
          conn = NewConn(role, hasProducerTransport, TRUE, probing)
    /\ hook = NewHook
    /\ ev = NoEv

CloseSnapshots ==
    SnapshotSet({1}, [paused : {FALSE}, producerPaused : {FALSE}], {}, NoStatus)

NextClose ==
    \/ Produce(1, "video")
    \/ \E t \in BagToSet(ptasks) : ProduceResolve(t)
    \/ \E s \in CloseSnapshots : StateEvent(s)
    \/ \E t \in BagToSet(ctasks) : ConsumeResolve(t)
    \/ HeartbeatTick
    \/ ProbeTick
    \/ \E reenter \in BOOLEAN : Close(reenter)

SpecClose == InitClose /\ [][NextClose]_vars

\* a mounted hook: it connects, the session produces media, disconnect events
\* of every reason arrive and the caller may ask to reconnect
InitHook ==
    /\ role \in Roles
    /\ status = {}
    /\ hasProducerTransport = TRUE
    /\ disableFrux = FALSE
    /\ InitProducers /\ InitTracks /\ InitMonitor /\ InitQuality /\ InitSnapshots
    /\ InitPeers
    /\ conn = NoConn
    /\ hook = NewHook
    /\ ev = NoEv

NextHook ==
    \/ DebounceElapsed
    \/ StartHandshake
    \/ \E c \in BagToSet(hook.connecting) : HandshakeStep(c)
    \/ \E c \in BagToSet(hook.connecting) : HandshakeResolve(c)
    \/ \E c \in BagToSet(hook.connecting) : HandshakeReject(c)
    \/ \E reason \in DisconnectReasons : DisconnectEvent(reason)
    \/ ManuallyReconnect
    \/ hook.client /\ Produce(1, "video")
    \/ \E t \in BagToSet(ptasks) : ProduceResolve(t)

SpecHook == InitHook /\ [][NextHook]_vars

\* room states of two participants with one consumer each, paused or not
ContainSnapshots ==
    SnapshotSet({1, 2}, [paused : BOOLEAN, producerPaused : {FALSE}],
                {}, NoStatus)

\* the same session when the receive transport may reject any creation
NextContain ==
    \/ \E s \in ContainSnapshots : StateEvent(s)
    \/ \E t \in BagToSet(ctasks) : ConsumeResolve(t)
    \/ \E t \in BagToSet(ctasks) : ConsumeReject(t)

SpecContain == InitSnap /\ [][NextContain]_vars

\* a mounted hook whose application sends messages before, while and after it
\* is connected
NextChat ==
    \/ DebounceElapsed
    \/ StartHandshake
    \/ \E c \in BagToSet(hook.connecting) : HandshakeStep(c)
    \/ \E c \in BagToSet(hook.connecting) : HandshakeResolve(c)
    \/ \E reason \in DisconnectReasons : DisconnectEvent(reason)
    \/ \E m \in Contents : SendMessage(m)
    \/ \E m \in BagToSet(hook.sending) : SendMessageAck(m)
    \/ \E m \in BagToSet(hook.sending) : SendMessageReject(m)

SpecChat == InitHook /\ [][NextChat]_vars

\* a hook that connects, of either role, and whose component may unmount at
\* any time while the session's timers run
NextUnmount ==
    \/ DebounceElapsed
    \/ StartHandshake
    \/ \E c \in BagToSet(hook.connecting) : HandshakeStep(c)
    \/ \E c \in BagToSet(hook.connecting) : HandshakeResolve(c)
    \/ \E c \in BagToSet(hook.connecting) : HandshakeReject(c)
    \/ \E reason \in DisconnectReasons : DisconnectEvent(reason)
    \/ HeartbeatTick
    \/ ProbeTick
    \/ Unmount

SpecUnmount == InitHook /\ [][NextUnmount]_vars

\* a connected hook of either kind: one announcing peers from the session's
\* peer events, one from the participants of the room state
InitNotify ==
    /\ role = "visitParticipant"
    /\ status = {}
    /\ hasProducerTransport = TRUE
    /\ disableFrux = FALSE
    /\ InitProducers /\ InitTracks /\ InitMonitor /\ InitQuality /\ InitSnapshots
    /\ peerSource \in {"events", "state"}
    /\ InitPeerState
    /\ conn = NewConn(role, hasProducerTransport, TRUE, TRUE)
    /\ hook = NewHook
    /\ ev = NoEv

\* room states over the remote participants, one consumer id
NotifySnapshots ==
    SnapshotSet({1}, [paused : {FALSE}, producerPaused : {FALSE}],
                RemoteUsers, NoStatus)

NextNotify ==
    \/ \E u \in RemoteUsers, kind \in MediaKind : ConsumeEvent(u, kind)
    \/ \E t \in BagToSet(consumeEvents) : ConsumeEventResolve(t)
    \/ \E t \in BagToSet(consumeEvents) : ConsumeEventReject(t)
    \/ \E u \in RemoteUsers : ProducerUpdateEvent(u)
    \/ \E u \in RemoteUsers : ParticipantDisconnect(u)
    \/ \E s \in NotifySnapshots : peerSource = "state" /\ StateEvent(s)
    \/ \E t \in BagToSet(ctasks) : ConsumeResolve(t)
    \/ TrackPeers

SpecNotify == InitNotify /\ [][NextNotify]_vars

\* the same session when every room state arrives after the creations started by
\* the one before it have settled
NextSerial ==
    \/ \E s \in ConsumerSnapshots : ctasks = EmptyBag /\ StateEvent(s)
    \/ \E t \in BagToSet(ctasks) : ConsumeResolve(t)
    \/ \E t \in BagToSet(ctasks) : ConsumeReject(t)

SpecSerial == InitSnap /\ [][NextSerial]_vars

StatusOptions ==
    [u \in Users |->
        IF u = SelfId THEN {{}, {"VideoMutedByServer"}} ELSE {{}, {"HandRaised"}}]

\* room states over any set of participants and their status, one consumer id
PeerSnapshots ==
    SnapshotSet({1}, [paused : BOOLEAN, producerPaused : {FALSE}],
                Users, StatusOptions)

NextPeers ==
    \/ \E s \in PeerSnapshots : StateEvent(s)
    \/ \E t \in BagToSet(ctasks) : ConsumeResolve(t)
    \/ \E t \in BagToSet(ctasks) : ConsumeReject(t)

SpecPeers == InitSnap /\ [][NextPeers]_vars

----------------------------------------------------------------------------
(* Properties of snapshot reconciliation *)

\* every creation the last room state started has settled, none was rejected
FullyApplied == lastSnap # <<>> /\ ctasks = EmptyBag /\ failed = {}

\* number of pending creations for consumer id i
PendingFor(i) ==
    BagCardinality([t \in {u \in BagToSet(ctasks) : u.id = i} |-> ctasks[t]])

\* consumer objects created for id i and not closed
LiveObjs(i) == {k \in DOMAIN cobjs : cobjs[k].id = i /\ ~cobjs[k].closed}

\* C1: once a snapshot has been fully applied, the ids of the live (created and
\* not closed) remote consumers are exactly the consumer ids named in that
\* snapshot; an id absent from it has been closed and dropped, and a snapshot
\* naming no consumer leaves none live.
C1_LiveIdsEqualSnapshot ==
    FullyApplied =>
        /\ LiveIds = SnapIds(lastSnap[1])
        /\ \A i \in ConsumerIds :
              Lookup(consumers, i) # NoEntry => i \in SnapIds(lastSnap[1])

\* C2: applying the snapshot that was just fully applied once more creates no
\* transport consumer, closes none, calls neither pause nor resume, and leaves
\* every id bound to the same consumer and the same stream.
C2_SecondApplicationIsNoOp ==
    [][(FullyApplied /\ ev'.op = "state" /\ lastSnap' = lastSnap) =>
          /\ ev'.consumed = {}
          /\ ev'.cpause = {}
          /\ ctasks' = ctasks
          /\ cobjs' = cobjs
          /\ consumers' = consumers
          /\ nstreams' = nstreams]_vars

\* C3: while a consumer id is live or being created it is bound to one transport
\* consumer: consume is invoked once for it, also when a second snapshot names
\* the id while the creation started by the first is still pending.
C3_OneConsumerPerId ==
    \A i \in ConsumerIds : Cardinality(LiveObjs(i)) + PendingFor(i) <= 1

\* C4: after a snapshot is applied the published peer registry holds exactly the
\* participants of the snapshot other than the session's own user, each with the
\* status of the snapshot, and the own entry's status is the session's status.
C4_PeersAreOthersWithStatus ==
    lastSnap # <<>> =>
        /\ DOMAIN peersEvent = lastSnap[1].present \ {SelfId}
        /\ \A u \in DOMAIN peersEvent :
              peersEvent[u].status = lastSnap[1].status[u]
        /\ SelfId \in lastSnap[1].present => status = lastSnap[1].status[SelfId]

----------------------------------------------------------------------------
(* Properties of local production *)

\* producers created for a label and not closed
ActiveProducers(l) ==
    {k \in DOMAIN pobjs : pobjs[k].label = l /\ ~pobjs[k].closed}

\* C5: in every reachable state at most one created and not closed local
\* producer exists per label, also when two produce calls for a label overlap.
C5_OneActiveProducerPerLabel ==
    \A l \in ProducerLabel : Cardinality(ActiveProducers(l)) <= 1

\* C6: produce for a label the registry already holds fails with the
\* already-producing error, calls neither the media transport nor the signaling
\* channel and leaves the producer registry unchanged.
C6_ProduceHeldLabelFails ==
    [][\A l \in ProducerLabel :
          (ev'.op = "produce" /\ ev'.label = l /\ Holds(producers, l)) =>
              /\ ev'.res = "alreadyProducing"
              /\ ev'.tproduce = 0
              /\ ev'.sent = <<>>
              /\ UNCHANGED producerVars]_vars

C6_Witness ==
    /\ ev.op = "produce"
    /\ ev.res = "alreadyProducing"
    /\ Holds(producers, ev.label)
    /\ ~pobjs[producers[ev.label]].closed

\* C7: a label is reusable after explicit close: when closeProducer(label)
\* completes the label is free, a produce for a free label is accepted and handed
\* to the transport, and when the transport resolves a new, open producer is
\* registered under the label.
C7_LabelReusableAfterClose ==
    [][/\ (ev'.op = "closeProducerDone" /\ ev'.res = "ok") =>
              ~Holds(producers', ev'.label)
       /\ (ev'.op = "produce" /\ hasProducerTransport
              /\ ~Holds(producers, ev'.label)) =>
              (ev'.res = "pending" /\ ev'.tproduce = 1)
       /\ (ev'.op = "produceDone" /\ ev'.res = "ok") =>
              /\ Holds(producers', ev'.label)
              /\ producers'[ev'.label] = Len(pobjs) + 1
              /\ ~pobjs'[producers'[ev'.label]].closed]_vars

C7_Witness ==
    /\ ev.op = "produceDone" /\ ev.res = "ok"
    /\ ptasks = EmptyBag
    /\ Holds(producers, "audio")
    /\ ~pobjs[producers["audio"]].closed
    /\ \E k \in DOMAIN pobjs :
          k < producers["audio"] /\ pobjs[k].label = "audio" /\ pobjs[k].closed

\* C8: while the session's status holds the server mute of a label, resume of
\* that label changes nothing: no producer is resumed, no producerUpdate is sent,
\* no error is raised; a video producer paused just before stays paused.
C8_ResumeUnderServerMuteIgnored ==
    [][\A l \in MediaKind :
          (ev'.op = "resume" /\ ev'.label = l /\ MuteFlag(l) \in status) =>
              /\ ev'.res \in {"ignored", "noop"}
              /\ Holds(producers, l) => ev'.res = "ignored"
              /\ ev'.sent = <<>>
              /\ UNCHANGED producerVars
              /\ (ev.op = "pause" /\ ev.label = l /\ ev.res = "ok") =>
                    pobjs'[producers'[l]].paused]_vars

C8_Witness ==
    /\ ev.op = "resume" /\ ev.label = "video" /\ ev.res = "ignored"
    /\ "VideoMutedByServer" \in status
    /\ Holds(producers, "video")
    /\ pobjs[producers["video"]].paused

\* C9: with auto-degrade enabled and the last-known quality bad, resume of the
\* video producer changes nothing: the producer stays paused, no producerUpdate
\* is sent and no error is raised.
C9_ResumeVideoUnderBadQualityIgnored ==
    [][(ev'.op = "resume" /\ ev'.label = "video" /\ ~disableFrux
          /\ connectionState.quality = "bad" /\ Holds(producers, "video")
          /\ pobjs[producers["video"]].paused) =>
              /\ ev'.res = "ignored"
              /\ ev'.sent = <<>>
              /\ UNCHANGED producerVars]_vars

\* C10: pause, resume and closeProducer for a label without a registered
\* producer raise no error, send no request and leave the registry and every
\* producer unchanged.
C10_MissingLabelIsNoOp ==
    [][\A l \in ProducerLabel :
          (ev'.op \in {"pause", "resume", "closeProducer"} /\ ev'.label = l
              /\ ~Holds(producers, l)) =>
              /\ ev'.res = "noop"
              /\ ev'.sent = <<>>
              /\ UNCHANGED producerVars]_vars

C10_Witness ==
    /\ ev.op \in {"pause", "resume", "closeProducer"}
    /\ ev.res = "noop"
    /\ ~Holds(producers, ev.label)
    /\ \E l \in ProducerLabel : Holds(producers, l) /\ ~pobjs[producers[l]].closed

\* the number of suspended closeProducer calls for label l in bag b
ClosesPending(b, l) ==
    BagCardinality([x \in {y \in BagToSet(b) : y.kind = "close" /\ y.label = l}
                      |-> b[x]])

\* C11: when a track fires "ended", every label whose registered producer
\* produces that track gets the teardown of closeProducer (the producer is
\* closed, a producerClose request is sent, the call is suspended until the
\* acknowledgement, which removes the label); a label whose registered producer
\* produces another track, or that has no producer, is left alone.
C11_TrackEndedTearsDown ==
    [][/\ \A t \in Tracks :
            (ev'.op = "trackEnded" /\ t \in endedTracks' \ endedTracks) =>
               /\ producers' = producers
               /\ \A l \in ProducerLabel :
                     IF Holds(producers, l) /\ pobjs[producers[l]].track = t
                     THEN /\ pobjs'[producers[l]].closed
                          /\ \E i \in DOMAIN ev'.sent :
                                ev'.sent[i] =
                                    Req("producerClose", l, FALSE, NoReason)
                          /\ ClosesPending(ptasks', l) > ClosesPending(ptasks, l)
                     ELSE /\ \A i \in DOMAIN ev'.sent : ev'.sent[i].label # l
                          /\ ClosesPending(ptasks', l) = ClosesPending(ptasks, l)
                          /\ Holds(producers, l) =>
                                pobjs'[producers[l]] = pobjs[producers[l]]
       /\ (ev'.op = "closeProducerDone" /\ ev'.res = "ok"
              /\ ev'.label \in ProducerLabel) =>
              producers'[ev'.label] = 0]_vars

C11_Witness ==
    /\ ev.op = "trackEnded" /\ ev.sent = <<>>
    /\ endedTracks = {1, 2}
    /\ producers["audio"] = 2
    /\ pobjs[2].track = 1 /\ pobjs[2].closed
    /\ pobjs[1].label = "audio" /\ pobjs[1].track = 2 /\ pobjs[1].closed
    /\ ptasks = SetToBag({PTask("close", "audio", 0, 2)})

\* C12: right after a successful produce the new producer is paused exactly
\* when the session's status holds the server mute of its label (the tracks
\* handed to produce are enabled).
C12_NewProducerPausedUnderMute ==
    [][(ev'.op = "produceDone" /\ ev'.res = "ok" /\ ev'.label \in MediaKind) =>
          pobjs'[producers'[ev'.label]].paused = ServerMuted(status, ev'.label)]_vars

----------------------------------------------------------------------------
(* Properties of the connection monitor *)

\* a step in which handleResponse took a well-formed response
ResponseStep == ev'.op \in {"pong", "quality"} /\ ev'.res # "malformed"

\* results whose probe was sent less than 5000 ms before time at
LiveAt(rs, at) == {i \in DOMAIN rs : at - rs[i].checkTime < 5000}

\* C13: a quality event is emitted only at a response after which at least 5
\* unexpired samples are held; with fewer, nothing is emitted and the current
\* quality is unchanged, so it is unknown until the fifth live sample.
C13_EmitNeedsFiveLiveSamples ==
    [][/\ emitted' # emitted =>
             (ResponseStep /\ Cardinality(LiveAt(results', now')) >= 5)
       /\ (ResponseStep /\ Cardinality(LiveAt(results', now')) < 5) =>
             (emitted' = emitted /\ monQuality' = monQuality /\ monPing' = monPing)
       /\ emitted' = <<>> => monQuality' = "unknown"]_vars

C13_Witness ==
    /\ ev.op = "pong" /\ ev.res = "none"
    /\ Len(results) = 4
    /\ now > RESULTS_TTL_MS
    /\ emitted = <<>>
    /\ monQuality = "unknown"

\* the level of the event emitted last, unknown before the first event
LastEmitted(es) == IF es = <<>> THEN "unknown" ELSE es[Len(es)]

\* C14: at a response that leaves at least 5 live samples an event is emitted
\* exactly when the computed level differs from the level emitted last; any two
\* consecutive events carry different levels.
C14_EdgeTriggered ==
    [][/\ (ResponseStep /\ Len(results') >= 5) =>
             IF NewQuality(results') # LastEmitted(emitted)
             THEN emitted' = Append(emitted, NewQuality(results'))
             ELSE emitted' = emitted
       /\ \A i \in 1..(Len(emitted') - 1) : emitted'[i] # emitted'[i + 1]]_vars

C14_Witness ==
    /\ ev.op = "pong" /\ ev.res = "none"
    /\ Len(results) >= 5
    /\ Len(emitted) = 1
    /\ NewQuality(results) = emitted[1]

\* C15: with at least 5 live samples the level is the first of excellent, good,
\* average, poor, bad whose limit (50, 150, 500, 1000 ms, none) is not below the
\* mean round trip; a mean equal to a limit selects that limit's level.
C15_LevelByThreshold ==
    [][(ResponseStep /\ Len(results') >= 5) =>
          LET sum == SumMs(results')
              n   == Len(results')
          IN  monQuality' =
                 IF sum <= 50 * n THEN "excellent"
                 ELSE IF sum <= 150 * n THEN "good"
                 ELSE IF sum <= 500 * n THEN "average"
                 ELSE IF sum <= 1000 * n THEN "poor"
                 ELSE "bad"]_vars

C15_Witness ==
    /\ Len(results) = 5
    /\ \A i \in DOMAIN results : results[i].ms = 150
    /\ monQuality = "good"
    /\ monPing = 150
    /\ emitted = <<"good">>

----------------------------------------------------------------------------
(* Properties of the automatic video pause *)

\* C16: with auto-degrade active, when the monitor's level changes to bad while
\* a video producer is registered and sending, the producer is paused and a
\* producerUpdate with paused = true and reason paused_video_bad_connection is
\* sent.
C16_BadQualityPausesVideo ==
    [][(ev'.op = "quality" /\ monQuality # "bad" /\ monQuality' = "bad"
          /\ ~disableFrux /\ Holds(producers, "video")
          /\ ~pobjs[producers["video"]].paused) =>
              /\ pobjs'[producers["video"]].paused
              /\ ev'.sent = <<Req("producerUpdate", "video", TRUE,
                                  BadConnectionReason)>>]_vars

\* C17: when the monitor's level changes from bad to a better one, the video
\* producer that the bad level had paused is resumed and a producerUpdate with
\* paused = false is sent, unless the status holds the server's video mute, in
\* which case the producer stays paused.
C17_RecoveryRestoresVideo ==
    [][(ev'.op = "quality" /\ monQuality = "bad" /\ monQuality' # "bad"
          /\ ~disableFrux /\ Holds(producers, "video")
          /\ pobjs[producers["video"]].paused
          /\ connectionState.videoDisabled) =>
              IF ServerMuted(status, "video")
              THEN pobjs'[producers["video"]].paused
              ELSE /\ ~pobjs'[producers["video"]].paused
                   /\ \E i \in DOMAIN ev'.sent :
                         ev'.sent[i] =
                             Req("producerUpdate", "video", FALSE, NoReason)]_vars

----------------------------------------------------------------------------
(* Properties of disconnect *)

\* what close() may write
closeVars == <<conn.heartbeat, conn.socket, conn.consumerTransport,
               conn.producerTransport, conn.subscribers, conn.monitorTimer,
               conn.monitorSubscribers, pobjs, cobjs, producers, consumers>>

CloseStep == ev'.op \in {"close", "closeReentrant"}

C19_CloseReleasesEverything ==
    [][/\ CloseStep =>
             /\ \A l \in ProducerLabel :
                   Holds(producers', l) => pobjs'[producers'[l]].closed
             /\ \A i \in ConsumerIds :
                   consumers'[i] # NoEntry => cobjs'[consumers'[i].consumer].closed
             /\ ~conn'.consumerTransport /\ ~conn'.producerTransport
             /\ ~conn'.socket
             /\ ~conn'.heartbeat /\ ~conn'.monitorTimer
             /\ ~conn'.subscribers
       /\ conn.closeCalls > 0 =>
             /\ ev'.op \notin {"heartbeat", "ping"}
             /\ ~conn'.heartbeat /\ ~conn'.monitorTimer]_vars

C19_Witness ==
    /\ ev.op = "close"
    /\ conn.closeCalls = 1
    /\ role = "monitor"
    /\ ~conn.heartbeat /\ ~conn.monitorTimer /\ ~conn.socket
    /\ Holds(producers, "video") /\ pobjs[producers["video"]].closed
    /\ consumers[1] # NoEntry /\ cobjs[consumers[1].consumer].closed
    /\ ptasks = EmptyBag /\ ctasks = EmptyBag

----------------------------------------------------------------------------
(* Properties of the reconnection policy *)

\* C20: after a disconnect event the hook is about to start a handshake exactly
\* when the reason is the transport error; a handshake that follows a
\* disconnect of another reason is started only after manuallyReconnect was
\* called since that disconnect.
C20_ReconnectOnlyOnError ==
    [][/\ ev'.op = "disconnect" =>
             (InitEffectEnabled(hook') <=> hook'.disconnectReason = "error")
       /\ (ev'.op = "handshake"
              /\ hook.disconnectReason \in DisconnectReasons \ {"error"}) =>
             hook.manualSince]_vars

\* the registry as the hook sees it: the track of each label's producer
RegistryTracks(ps, objs) ==
    [l \in ProducerLabel |-> IF Holds(ps, l) THEN objs[ps[l]].track ELSE 0]

\* the produce calls that are suspended, as (label, track) pairs
ProduceCalls(b) ==
    {<<t.label, t.track>> : t \in {x \in BagToSet(b) : x.kind = "produce"}}

C22_StatusLifecycle ==
    [][/\ hook'.clientStatus # hook.clientStatus =>
             <<hook.clientStatus, hook'.clientStatus>> \in
                {<<"initializing", "connected">>, <<"initializing", "errored">>,
                 <<"connected", "disconnected">>, <<"connected", "errored">>,
                 <<"disconnected", "initializing">>,
                 <<"errored", "initializing">>}
       /\ (hook'.clientStatus = "connected" /\ hook.clientStatus # "connected") =>
             (ev'.op = "handshakeDone" /\ ev'.res = "ok")]_vars

\* a session is made: finishConnecting is sent, or the heartbeat or the
\* caller's subscriptions come into being
SessionMade ==
    \/ \E i \in DOMAIN ev'.sent : ev'.sent[i].name = "finishConnecting"
    \/ conn'.heartbeat /\ ~conn.heartbeat
    \/ conn'.subscribers /\ ~conn.subscribers
    \/ conn'.socket /\ ~conn.socket

HeartbeatsSent(e) == {i \in DOMAIN e.sent : e.sent[i].name = "heartbeat"}

\* C24: the heartbeat interval runs exactly in a monitor's session that has
\* not been closed, from its construction on; each of its ticks sends one
\* heartbeat request, and no other step of any session sends one
C24_HeartbeatIffMonitor ==
    [][/\ conn.heartbeat <=> (role = "monitor" /\ conn.closeCalls = 0)
       /\ conn'.heartbeat <=> (role' = "monitor" /\ conn'.closeCalls = 0)
       /\ HeartbeatsSent(ev') # {} =>
             /\ role = "monitor" /\ conn.closeCalls = 0
             /\ ev'.op = "heartbeat"
             /\ Cardinality(HeartbeatsSent(ev')) = 1
       /\ ev'.op = "heartbeat" => Cardinality(HeartbeatsSent(ev')) = 1]_vars

\* a monitor's session has sent a heartbeat and is still open
C24_Witness ==
    /\ ev.op = "heartbeat" /\ HeartbeatsSent(ev) # {}
    /\ role = "monitor"
    /\ conn.heartbeat /\ conn.closeCalls = 0

\* C25: a session whose role is monitor never sends the connectionState
\* request, whatever quality its monitor reports
C25_MonitorSendsNoQualityReport ==
    [][role = "monitor" =>
          \A i \in DOMAIN ev'.sent : ev'.sent[i].name # "connectionState"]_vars

\* a step that may call the application's peer callbacks
NoticeStep ==
    ev'.op \in {"consumeEventDone", "producerUpdate", "participantDisconnect",
                "trackPeers"}

\* whether the hook's source of peers holds user u
PeerKnown(src, ps, tr, u) == IF src = "events" THEN ps[u].present ELSE u \in tr

C27_SentMessageAppendedOnAccept ==
    [][/\ ev'.op = "sendMessage" =>
             /\ hook'.messages = hook.messages
             /\ IF hook.client
                THEN /\ ev'.res = "pending"
                     /\ Len(ev'.sent) = 1 /\ ev'.sent[1].name = "textMessage"
                     /\ hook'.sending = hook.sending (+) SetToBag({ev'.label})
                ELSE /\ ev'.res = "Not connected"
                     /\ ev'.sent = <<>>
                     /\ hook'.sending = hook.sending
       /\ ev'.op = "sendMessageDone" =>
             /\ ev'.label \in BagToSet(hook.sending)
             /\ hook'.sending = hook.sending (-) SetToBag({ev'.label})
             /\ hook'.messages =
                   IF ev'.res = "ok" THEN Append(hook.messages, ev'.label)
                   ELSE hook.messages
       /\ hook'.messages # hook.messages =>
             (ev'.op = "sendMessageDone" /\ ev'.res = "ok")]_vars

\* a message was sent by a connected hook, accepted and appended
C27_Witness ==
    /\ ev.op = "sendMessageDone" /\ ev.res = "ok" /\ ev.label = "a"
    /\ hook.messages = <<"a">>
    /\ hook.sending = EmptyBag

\* C28: when the component unmounts while a client is connected, close() is
\* called on that client: its socket is closed and its timers are cleared
C28_UnmountDisconnects ==
    [][(ev'.op = "unmount" /\ hook.client) =>
          /\ conn'.closeCalls = conn.closeCalls + 1
          /\ ~conn'.socket /\ ~conn'.heartbeat /\ ~conn'.monitorTimer]_vars

\* C29: the handling of a room state starts only when every consumer creation
\* started for the room states before it has settled
C29_SnapshotsSerialized ==
    [][ev'.op = "state" => ctasks = EmptyBag]_vars

\* C30: a rejected consumer creation stops nothing: a room state handled after
\* it starts a creation for each of its ids that has no entry, adjusts the
\* pause state of those that have one and publishes its peers; and once the
\* creations have settled without a further rejection, every id of the last
\* room state has a live consumer in the registry
C30_FailureContained ==
    [][/\ (ev'.op = "state" /\ unhandled) =>
             LET s == lastSnap'[1]
                 missing == {i \in SnapIds(s) : consumers[i] = NoEntry}
             IN  /\ ev'.consumed = missing
                 /\ ctasks' = ctasks (+)
                       SetToBag({[id |-> i, paused |-> s.cons[i].paused] :
                                    i \in missing})
                 /\ \A i \in SnapIds(s) \ missing :
                       cobjs'[consumers[i].consumer].paused = s.cons[i].paused
                 /\ DOMAIN peersEvent' = s.present
       /\ (unhandled' /\ lastSnap' # <<>> /\ ctasks' = EmptyBag /\ failed' = {}) =>
             \A i \in SnapIds(lastSnap'[1]) :
                /\ consumers'[i] # NoEntry
                /\ cobjs'[consumers'[i].consumer].id = i
                /\ ~cobjs'[consumers'[i].consumer].closed]_vars

\* after a rejected creation a later room state was handled and its consumer
\* creation has resolved
C30_Witness ==
    /\ unhandled
    /\ ev.op = "consumeDone" /\ ev.res = "ok"
    /\ FullyApplied
    /\ SnapIds(lastSnap[1]) # {}
    /\ \A i \in SnapIds(lastSnap[1]) : consumers[i] # NoEntry

----------------------------------------------------------------------------
(* Properties of requests in flight at close *)

\* C31: once close() has run, a consumer creation that resolves adds no
\* consumer that is not closed to the registry, and the emitter has no
\* subscriber an event could be published to
C31_ResolutionAfterCloseIgnored ==
    [][conn.closeCalls > 0 =>
          /\ ev'.op = "consumeDone" =>
                \A i \in ConsumerIds :
                   consumers'[i] # NoEntry =>
                      cobjs'[consumers'[i].consumer].closed
          /\ ~conn'.subscribers]_vars

----------------------------------------------------------------------------
(* Properties of the consumers' pause state *)

\* room states of two participants whose consumers are paused by the server
\* for the consumer, for its producer, for both or for neither
PauseSnapshots == SnapshotSet({1, 2}, Descs, {}, NoStatus)

\* a session whose room states arrive one after the other has settled
NextPause ==
    \/ \E s \in PauseSnapshots : ctasks = EmptyBag /\ StateEvent(s)
    \/ \E t \in BagToSet(ctasks) : ConsumeResolve(t)
    \/ \E t \in BagToSet(ctasks) : ConsumeReject(t)

SpecPause == InitSnap /\ [][NextPause]_vars

\* C32: once a room state is fully applied, every consumer it names is paused
\* exactly when its descriptor has producerPaused or paused set, both when the
\* consumer was created for this room state and when it existed before
C32_PausedFromBothFlags ==
    FullyApplied =>
        \A i \in SnapIds(lastSnap[1]) :
            consumers[i] # NoEntry =>
                (cobjs[consumers[i].consumer].paused <=>
                    (lastSnap[1].cons[i].producerPaused
                        \/ lastSnap[1].cons[i].paused))

----------------------------------------------------------------------------
(* Properties of producer updates *)

\* a session producing audio and video that the caller pauses and resumes, with
\* and without a reason, while the connection monitor reports qualities
NextUpdate ==
    \/ \E l \in MediaKind : Produce(1, l)
    \/ \E t \in BagToSet(ptasks) : ProduceResolve(t)
    \/ \E l \in MediaKind, r \in {NoReason, BadConnectionReason} : Pause(l, r)
    \/ \E l \in MediaKind : Resume(l)
    \/ \E q \in {"good", "bad"} : QualityEvent(q)
    \/ \E t \in BagToSet(qtasks) : QualityResume(t)

SpecUpdate == InitQual /\ [][NextUpdate]_vars

\* C33: a pause or resume carried out on a registered producer sends exactly
\* one producerUpdate for its label with the new paused flag (true for pause,
\* false for resume) and sets the producer's flag to the one sent; the pause
\* of the quality handler, which gives the bad-connection reason, sends that
\* reason; and a pause of a registered producer is always carried out
C33_UpdateSendsNewFlag ==
    [][/\ \A l \in MediaKind :
            (ev'.op \in {"pause", "resume"} /\ ev'.label = l /\ ev'.res = "ok") =>
               /\ Holds(producers, l)
               /\ Len(ev'.sent) = 1
               /\ ev'.sent[1].name = "producerUpdate"
               /\ ev'.sent[1].label = l
               /\ ev'.sent[1].paused = (ev'.op = "pause")
               /\ ev'.op = "resume" => ev'.sent[1].reason = NoReason
               /\ producers' = producers
               /\ pobjs'[producers[l]].paused = ev'.sent[1].paused
       /\ \A l \in MediaKind :
            (ev'.op = "pause" /\ ev'.label = l /\ Holds(producers, l)) =>
               ev'.res = "ok"
       /\ (ev'.op = "quality" /\ ev'.res = "pending") =>
               /\ ev'.sent = <<Req("producerUpdate", "video", TRUE,
                                   BadConnectionReason)>>
               /\ pobjs'[producers["video"]].paused]_vars

\* the video producer was paused by the quality handler, resumed by the caller
\* and paused again with the reason given
C33_Witness ==
    /\ ev.op = "pause" /\ ev.label = "video" /\ ev.res = "ok"
    /\ ev.sent = <<Req("producerUpdate", "video", TRUE, BadConnectionReason)>>
    /\ pobjs[producers["video"]].paused
    /\ connectionState.quality = "bad"
    /\ Holds(producers, "audio") /\ ~pobjs[producers["audio"]].paused

----------------------------------------------------------------------------
(* Properties of the handshake *)

\* the names of the calls of a step, in order
CallNames(e) == [i \in DOMAIN e.sent |-> e.sent[i].name]

\* C34: every connection attempt goes through its steps in one order: it is
\* started by the join request; when join resolves the device load is awaited
\* and nothing is sent; when the load resolves the transports are made and then
\* declareRtpCapabilities is sent; when that resolves the session subscribes
\* its textMessage, timer and state handlers and then sends finishConnecting;
\* and none of these requests is sent in any other step
C34_HandshakeOrder ==
    [][/\ ev'.op = "handshake" =>
             /\ CallNames(ev') = <<"join">>
             /\ \E c \in BagToSet(hook'.connecting) :
                    /\ c.step = "join"
                    /\ hook'.connecting = hook.connecting (+) SetToBag({c})
       /\ ev'.op = "handshakeStep" =>
             \E c \in BagToSet(hook.connecting) :
                /\ c.step = ev'.label
                /\ c.step \in {"join", "load"}
                /\ hook'.connecting = (hook.connecting (-) SetToBag({c})) (+)
                      SetToBag({[c EXCEPT !.step =
                                    IF c.step = "join" THEN "load"
                                    ELSE "declareRtpCapabilities"]})
                /\ CallNames(ev') =
                      IF c.step = "join" THEN <<>>
                      ELSE <<"createSendTransport", "createRecvTransport",
                             "declareRtpCapabilities">>
       /\ (ev'.op = "handshakeDone" /\ ev'.res = "ok") =>
             /\ \E c \in BagToSet(hook.connecting) :
                    /\ c.step = "declareRtpCapabilities"
                    /\ hook'.connecting = hook.connecting (-) SetToBag({c})
             /\ CallNames(ev') = <<"on textMessage", "on timer", "on state",
                                   "finishConnecting">>
             /\ conn'.socket /\ conn'.consumerTransport
       /\ \A i \in DOMAIN ev'.sent :
             /\ ev'.sent[i].name = "join" => ev'.op = "handshake"
             /\ ev'.sent[i].name = "declareRtpCapabilities" =>
                   (ev'.op = "handshakeStep" /\ ev'.label = "load")
             /\ ev'.sent[i].name = "finishConnecting" =>
                   (ev'.op = "handshakeDone" /\ ev'.res = "ok")]_vars

\* the second attempt of a hook, made after an error disconnect, has gone
\* through all its steps
C34_Witness ==
    /\ ev.op = "handshakeDone" /\ ev.res = "ok" /\ ev.label = "error"
    /\ hook.handshakes = 2
    /\ hook.connecting = EmptyBag
    /\ conn.socket /\ conn.closeCalls = 0

----------------------------------------------------------------------------
(* Properties of the tracks handed to a new session *)

\* a mounted hook whose session produces video; after a disconnect the tracks
\* of the closed session may end before the next session is made
NextRetrack ==
    \/ DebounceElapsed
    \/ StartHandshake
    \/ \E c \in BagToSet(hook.connecting) : HandshakeStep(c)
    \/ \E c \in BagToSet(hook.connecting) : HandshakeResolve(c)
    \/ DisconnectEvent("error")
    \/ \E tr \in Tracks : hook.client /\ tr \notin endedTracks /\ Produce(tr, "video")
    \/ \E t \in BagToSet(ptasks) : ProduceResolve(t)
    \/ \E tr \in Tracks : ~hook.client /\ TrackEnded(tr)

SpecRetrack == InitHook /\ [][NextRetrack]_vars

\* C35: a handshake that succeeds calls produce on the new session for no
\* label whose track has ended
C35_EndedTrackNotReproduced ==
    [][(ev'.op = "handshakeDone" /\ ev'.res = "ok") =>
          \A t \in BagToSet(ptasks') :
             t.kind = "produce" => t.track \notin endedTracks]_vars

----------------------------------------------------------------------------
(* Properties of the published peers *)

\* C36: when the "peers" event of a room state is published, every consumer
\* its payload names is in the consumer registry: its creation has completed
C36_PeersCarryResolvedConsumers ==
    [][ev'.op = "state" =>
          \A u \in DOMAIN peersEvent' :
             \A i \in peersEvent'[u].consumers :
                /\ consumers'[i] # NoEntry
                /\ cobjs'[consumers'[i].consumer].id = i]_vars

----------------------------------------------------------------------------
(* Properties of the last-known connection state *)

\* C37: when no quality handler is suspended, the session's connection state
\* has the quality of the event the monitor emitted last, and video is not
\* marked disabled when that quality is excellent, good or average
C37_StateFollowsLastQuality ==
    qtasks = EmptyBag =>
        /\ connectionState.quality = monQuality
        /\ monQuality \in {"excellent", "good", "average"} =>
              ~connectionState.videoDisabled

----------------------------------------------------------------------------
(* Properties of closed producers *)

\* C38: in every reachable state the producer a label is registered under is
\* not closed
C38_NoClosedProducerRegistered ==
    \A l \in ProducerLabel : Holds(producers, l) => ~pobjs[producers[l]].closed

\* C39: a producerClose request is sent only for a producer that was not
\* closed before the step that sends it, and no step sends two for one label:
\* every producer is closed, and reported closed, at most once
C39_ProducerClosedOnce ==
    [][\A i \in DOMAIN ev'.sent :
          ev'.sent[i].name = "producerClose" =>
             /\ Holds(producers, ev'.sent[i].label)
             /\ ~pobjs[producers[ev'.sent[i].label]].closed
             /\ \A j \in DOMAIN ev'.sent :
                   ev'.sent[j].label = ev'.sent[i].label => j = i]_vars

----------------------------------------------------------------------------
(* Properties of the hook's handshakes *)

\* C40: at most one call of reinitializeClient is suspended in
\* RoomClient.connect at any time, and when a handshake succeeds the session
\* made before it, if there was one, has been closed
C40_OneHandshakeOneClient ==
    [][/\ BagCardinality(hook'.connecting) <= 1
       /\ (ev'.op = "handshakeDone" /\ ev'.res = "ok") =>
             (~hook.client /\ ~conn.socket)]_vars

====
